---- MODULE Spec2Model ----
(***************************************************************************)
(* A model of the stored procedure call system of procedure.hpp and of the *)
(* erasure.cpp program that uses it.                                       *)
(*                                                                         *)
(* A wrapper instance lives at an address and holds a non-owning reference *)
(* to a callable (and, for a method wrapper, a pointer to member           *)
(* function).  The template arguments Typical and MethodLocational are     *)
(* part of the wrapper's base class (Objective<Typical, ...>,              *)
(* Methodic<Typical, MethodLocational, ...>) and decide the dynamic_cast   *)
(* of the equal to operator.  Resultant and Parametric are the same for    *)
(* every wrapper of the model: the compiler rejects anything else.         *)
(***************************************************************************)
EXTENDS Naturals, Sequences, FiniteSets, TLC

VARIABLES
    nortti,     \* PROCEDURE_MODULE_NORTTI is defined
    nothrow,    \* PROCEDURE_MODULE_NOTHROW is defined
    wrappers,   \* address -> the wrapper instance living there, or NoWrapper
    calls,      \* the array of Conventional handles: each an address
    shuffles,   \* how many times ShuffleCalls has run
    last        \* the call in progress: operation, operands, result, effect

vars == <<nortti, nothrow, wrappers, calls, shuffles, last>>

\* Bounds of the model: the wrappers a caller constructs besides the four of
\* erasure.cpp, and the rotations of the handle array.
MaxTemporaries == 1
MaxShuffles == 5

\* erasure.cpp: the array calls holds four handles.
Length == 4

----------------------------------------------------------------------------
(* Wrapper instances and the call in progress.                             *)

\* No instance lives at the address.
NoWrapper ==
    [ class |-> "none", typical |-> "none", object |-> "none",
      locational |-> "none", method |-> "none", via |-> "none" ]

\* No call is in progress.
Idle ==
    [ method |-> "none", op |-> "idle", a |-> 0, b |-> 0, argument |-> "none",
      value |-> "none", effect |-> <<>>, result |-> <<>> ]

IsObjective(w) == w.class \in {"SimplyObjective", "ComparablyObjective"}
IsMethodic(w) == w.class \in {"SimplyMethodic", "ComparablyMethodic"}
IsComparable(w) == w.class \in {"ComparablyObjective", "ComparablyMethodic"}

----------------------------------------------------------------------------
(* The callables a caller can bind: a reference is an address with the     *)
(* static type it is seen through (the deduced Typical).                   *)

Functional == "Resultant(Parametric...)"

FunctionRef == [typical |-> Functional, address |-> "Function"]
\* Lambda is declared without const: it can be seen through a reference to
\* the closure type and through one to the const closure type.
LambdaRef == [typical |-> "Closure", address |-> "Lambda"]
LambdaConstRef == [typical |-> "const Closure", address |-> "Lambda"]
ObjectRef == [typical |-> "const Class", address |-> "Object"]
\* A second object of the same class with the same contents.
TwinRef == [typical |-> "const Class", address |-> "Twin"]

Functions == {FunctionRef}
Callables == {FunctionRef, LambdaRef, LambdaConstRef, ObjectRef, TwinRef}
Receivers == {ObjectRef, TwinRef}

\* Pointers to member function of type  void (Class::*)( ... ) const.
MemberPointer == "Resultant (Class::*)(Parametric...) const"
Members == {"member", "other"}
Null == "nullptr"
Selectors == Members \cup {Null}
CallOperator == "operator()"

\* The argument lists of a call: example.cpp passes one message,
\* erasure.cpp's callables take no argument.
\* Typical is any callable type: the callables of the model throw when
\* handed the argument Refused and return for every other.
Refused == "Refused"
Arguments == {"Hello", "World", Refused}
NoArgument == "none"

\* What calling a callable does: it writes one line and then returns a
\* value or throws an exception (result is the value or the exception).
\* All depend on the callable that runs and on the argument.
Body(address, member, argument) ==
    [ effect |-> <<[object |-> address, argument |-> argument, member |-> member]>>,
      result |-> <<address, member, argument>>,
      raises |-> argument = Refused ]

----------------------------------------------------------------------------
(* The constructors and the factory functions.                             *)

\* Objective< Typical, Resultant, Parametric... >::Objective( Typical& )
Objective(class, reference, via) ==
    [ class |-> class, typical |-> reference.typical, object |-> reference.address,
      locational |-> "none", method |-> "none", via |-> via ]

\* Methodic< Typical, MethodLocational, ... >::Methodic( Typical&, method ):
\* the members it initialises; the null check is MethodicThrows.
Methodic(class, reference, method) ==
    [ class |-> class, typical |-> reference.typical, object |-> reference.address,
      locational |-> MemberPointer, method |-> method, via |-> "method" ]

\* A slip: the null check left out.
MethodicNeverThrows(method) == FALSE

\* A slip: the null check made whether or not the macro
\* PROCEDURE_MODULE_NOTHROW is defined.
MethodicAlwaysThrows(method) == method = Null

\* Methodic's constructor body: if (!method) throw method;
MethodicThrows(method) == ~nothrow /\ method = Null

\* The factory functions: the wrapper each returns.
\* Procure( Functional< Resultant, Parametric... >& function )
ProcureFunction(function) == Objective("SimplyObjective", function, "function")
\* Procure( Typical& object, guide )
ProcureObject(object) == Objective("SimplyObjective", object, "object")
\* Procure( Typical& object, const MethodLocational method, guide )
ProcureMethod(object, method) == Methodic("SimplyMethodic", object, method)
\* ProcureComparably( Functional< Resultant, Parametric... >& function )
ProcureComparablyFunction(function) ==
    Objective("ComparablyObjective", function, "function")
\* ProcureComparably( Typical& object, guide )
ProcureComparablyObject(object) ==
    Objective("ComparablyObjective", object, "object")
\* ProcureComparably( Typical& object, const MethodLocational method, guide )
ProcureComparablyMethod(object, method) ==
    Methodic("ComparablyMethodic", object, method)

\* erasure.cpp: the four wrappers of static storage, in the order of the
\* array calls.
LambdaProcedure == ProcureComparablyObject(LambdaRef)
FunctionProcedure == ProcureComparablyObject(FunctionRef)
FunctorProcedure == ProcureComparablyObject(ObjectRef)
MethodProcedure == ProcureComparablyMethod(ObjectRef, "member")
Statics == <<LambdaProcedure, FunctionProcedure, FunctorProcedure, MethodProcedure>>

Addresses == 1..(Length + MaxTemporaries)
Static == 1..Length
Live == {a \in Addresses : wrappers[a].class # "none"}
Free == Addresses \ Live
Comparable == {a \in Live : IsComparable(wrappers[a])}

----------------------------------------------------------------------------
(* The call in progress.  Every operation is synchronous: it runs to its   *)
(* end, the caller reads what it returned, and only then the next begins.  *)

Ready == last.op = "idle"

Text(boolean) == IF boolean THEN "true" ELSE "false"

----------------------------------------------------------------------------
(* The call operators.  Each yields the set of outcomes the call can have: *)
(* one, except where the behaviour is undefined.                           *)

\* A slip: the call wrapped in a handler that swallows the exception and
\* returns a value of its own.
ReturnedOrCaught(body) ==
    [value |-> "returned", effect |-> body.effect,
     result |-> IF body.raises THEN <<>> ELSE body.result]

\* return callable( arguments... );  with no handler around the call and no
\* exception specification: the value goes to the caller, and so does an
\* exception the callable throws.
Returned(body) ==
    [value |-> IF body.raises THEN "thrown" ELSE "returned",
     effect |-> body.effect, result |-> body.result]

\* SimplyObjective::operator(): return this->object( arguments... );
SimplyObjectiveCall(w, argument) ==
    {Returned(Body(w.object, CallOperator, argument))}

\* ComparablyObjective::operator(): return this->object( arguments... );
ComparablyObjectiveCall(w, argument) ==
    {Returned(Body(w.object, CallOperator, argument))}

\* A call through a null pointer to member function is undefined: the
\* program traps, or runs some member of the object.
NullMemberCall(w, argument) ==
    {[value |-> "undefined", effect |-> <<>>, result |-> <<>>]}
    \cup {[value |-> "undefined", effect |-> Body(w.object, m, argument).effect,
           result |-> Body(w.object, m, argument).result] : m \in Members}

\* A slip: the member call forgets the selector and runs the call operator.
SimplyMethodicCallOperator(w, argument) ==
    {Returned(Body(w.object, CallOperator, argument))}

\* SimplyMethodic::operator(): return (this->object.*this->method)( arguments... );
SimplyMethodicCall(w, argument) ==
    IF w.method = Null THEN NullMemberCall(w, argument)
    ELSE {Returned(Body(w.object, w.method, argument))}

\* ComparablyMethodic::operator(): return (this->object.*this->method)( arguments... );
ComparablyMethodicCall(w, argument) ==
    IF w.method = Null THEN NullMemberCall(w, argument)
    ELSE {Returned(Body(w.object, w.method, argument))}

\* Procedural::operator(), the pure virtual call operator: the dispatch on
\* the class of the instance.
Call(w, argument) ==
    CASE w.class = "SimplyObjective" -> SimplyObjectiveCall(w, argument)
      [] w.class = "ComparablyObjective" -> ComparablyObjectiveCall(w, argument)
      [] w.class = "SimplyMethodic" -> SimplyMethodicCall(w, argument)
      [] w.class = "ComparablyMethodic" -> ComparablyMethodicCall(w, argument)
      [] OTHER -> {}

----------------------------------------------------------------------------
(* The equal to and not equal to operators.                                *)

\* A slip: a kind tag compared besides the address, so that wrappers from
\* different factory overloads never match.
ObjectiveEqualTagged(w, relative) ==
    w.object = relative.object /\ w.via = relative.via

\* A slip: the types of the referenced objects compared, not their
\* addresses.
ObjectiveEqualTypical(w, relative) == w.typical = relative.typical

\* Objective::operator==: return &object == &relative.object;
ObjectiveEqual(w, relative) == w.object = relative.object

\* A slip: only the selectors compared, the receivers forgotten.
MethodicEqualSelector(w, relative) == w.method = relative.method

\* A slip: only the receivers compared, the selectors forgotten.
MethodicEqualReceiver(w, relative) == w.object = relative.object

\* Methodic::operator==:
\* return &object == &relative.object && method == relative.method;
MethodicEqual(w, relative) ==
    w.object = relative.object /\ w.method = relative.method

\* A slip: the cast names the simple class instead of the common base.
CastSimplyObjective(typical, relative) ==
    relative.class = "SimplyObjective" /\ relative.typical = typical

\* A slip: the cast replaced by one that does not look at the class of
\* relative.
CastObjectiveTypical(typical, relative) == relative.typical = typical

\* A slip: the cast names the comparable class instead of the common base.
CastComparablyObjective(typical, relative) ==
    relative.class = "ComparablyObjective" /\ relative.typical = typical

\* A slip: the cast also accepts the wrapper of a less qualified reference.
CastObjectiveQualified(typical, relative) ==
    /\ IsObjective(relative)
    /\ \/ relative.typical = typical
       \/ typical = "const Closure" /\ relative.typical = "Closure"

\* dynamic_cast<const BaseObjective*>(&relative): not null if and only if
\* relative's class derives from Objective< Typical, Resultant, Parametric... >.
CastObjective(typical, relative) ==
    IsObjective(relative) /\ relative.typical = typical

\* dynamic_cast<const BaseMethodic*>(&relative)
CastMethodic(typical, locational, relative) ==
    IsMethodic(relative) /\ relative.typical = typical
    /\ relative.locational = locational

\* A slip: the referenced objects compared whether or not the macro
\* PROCEDURE_MODULE_NORTTI is defined.
ComparablyObjectiveEqualAlways(a, b) ==
    CastObjective(wrappers[a].typical, wrappers[b])
    /\ ObjectiveEqual(wrappers[a], wrappers[b])

\* ComparablyObjective::operator==( const BaseProcedural& relative ), called
\* on the instance at address a with the instance at address b.
ComparablyObjectiveEqual(a, b) ==
    IF ~nortti
    THEN IF ~CastObjective(wrappers[a].typical, wrappers[b]) THEN FALSE
         ELSE ObjectiveEqual(wrappers[a], wrappers[b])
    ELSE b = a

\* A slip: the cast names the simple class instead of the common base.
ComparablyMethodicEqualSimply(a, b) ==
    IF ~nortti
    THEN IF wrappers[b].class # "SimplyMethodic" THEN FALSE
         ELSE MethodicEqual(wrappers[a], wrappers[b])
    ELSE b = a

\* ComparablyMethodic::operator==( const BaseProcedural& relative )
ComparablyMethodicEqual(a, b) ==
    IF ~nortti
    THEN IF ~CastMethodic(wrappers[a].typical, wrappers[a].locational, wrappers[b])
         THEN FALSE
         ELSE MethodicEqual(wrappers[a], wrappers[b])
    ELSE b = a

\* ComparablyProcedural::operator==, the pure virtual equal to operator
\* called through the virtual call mechanism.
Equal(a, b) ==
    IF wrappers[a].class = "ComparablyObjective"
    THEN ComparablyObjectiveEqual(a, b)
    ELSE ComparablyMethodicEqual(a, b)

\* SameProcedural::operator==( relative ): the qualified name suppresses the
\* virtual call mechanism, and ComparablyProcedural::operator== is pure
\* virtual with no definition.  The program is ill-formed, no diagnostic
\* required: the build fails to link, or the call yields anything.
QualifiedEqual(a, b) == {"true", "false", "undefined reference"}

Negation(value) ==
    CASE value = "true" -> "false"
      [] value = "false" -> "true"
      [] OTHER -> value

\* ComparablyProcedural::operator!=( const BaseProcedural& relative ):
\* return !SameProcedural::operator==( relative );
NotEqual(a, b) == {Negation(value) : value \in QualifiedEqual(a, b)}

----------------------------------------------------------------------------
(* The operations a caller performs.                                       *)

\* The wrapper w is returned into the storage at address a, unless the
\* constructor threw: then the exception (the null pointer itself) reaches
\* the caller and no instance exists.
Construct(a, w, thrown) ==
    /\ Ready
    /\ a \in Free \ Static
    /\ wrappers' = IF thrown THEN wrappers ELSE [wrappers EXCEPT ![a] = w]
    /\ last' = [Idle EXCEPT !.method = w.method, !.op = "construct",
                            !.a = IF thrown THEN 0 ELSE a,
                            !.value = IF thrown THEN "thrown" ELSE "constructed"]
    /\ UNCHANGED <<nortti, nothrow, calls, shuffles>>

Procure1(a, function) == Construct(a, ProcureFunction(function), FALSE)

Procure2(a, object) == Construct(a, ProcureObject(object), FALSE)

Procure3(a, object, method) ==
    Construct(a, ProcureMethod(object, method), MethodicThrows(method))

ProcureComparably1(a, function) ==
    Construct(a, ProcureComparablyFunction(function), FALSE)

ProcureComparably2(a, object) ==
    Construct(a, ProcureComparablyObject(object), FALSE)

ProcureComparably3(a, object, method) ==
    Construct(a, ProcureComparablyMethod(object, method), MethodicThrows(method))

\* The implicit copy constructor of a wrapper class: the new instance
\* references what the source references.
Copy(a, source) ==
    /\ Ready
    /\ a \in Free \ Static
    /\ source \in Live
    /\ wrappers' = [wrappers EXCEPT ![a] = wrappers[source]]
    /\ last' = [Idle EXCEPT !.op = "copy", !.a = a, !.b = source]
    /\ UNCHANGED <<nortti, nothrow, calls, shuffles>>

\* The implicit destructor.  The four wrappers of static storage outlive
\* main; no handle refers to any other instance.
Destroy(a) ==
    /\ Ready
    /\ a \in Live \ Static
    /\ wrappers' = [wrappers EXCEPT ![a] = NoWrapper]
    /\ last' = [Idle EXCEPT !.op = "destroy", !.a = a]
    /\ UNCHANGED <<nortti, nothrow, calls, shuffles>>

\* CallProcedure( call ), Demonstrate( invoke, message ): the call through
\* a reference to Procedural.
Invoke(a, argument) ==
    /\ Ready
    /\ a \in Live
    /\ \E outcome \in Call(wrappers[a], argument) :
          last' = [Idle EXCEPT !.op = "invoke", !.a = a, !.argument = argument,
                               !.value = outcome.value, !.effect = outcome.effect,
                               !.result = outcome.result]
    /\ UNCHANGED <<nortti, nothrow, wrappers, calls, shuffles>>

\* A slip: the comparison calls the callable of the left operand.
EqualsByCalling(a, b) ==
    /\ Ready
    /\ a \in Comparable
    /\ b \in Live
    /\ last' = [Idle EXCEPT !.op = "equals", !.a = a, !.b = b,
                            !.value = Text(Equal(a, b)),
                            !.effect = Body(wrappers[a].object, CallOperator,
                                            NoArgument).effect]
    /\ UNCHANGED <<nortti, nothrow, wrappers, calls, shuffles>>

\* a == b, with a a reference to ComparablyProcedural and b one to Procedural.
Equals(a, b) ==
    /\ Ready
    /\ a \in Comparable
    /\ b \in Live
    /\ last' = [Idle EXCEPT !.op = "equals", !.a = a, !.b = b,
                            !.value = Text(Equal(a, b))]
    /\ UNCHANGED <<nortti, nothrow, wrappers, calls, shuffles>>

\* a != b
NotEquals(a, b) ==
    /\ Ready
    /\ a \in Comparable
    /\ b \in Live
    /\ \E value \in NotEqual(a, b) :
          last' = [Idle EXCEPT !.op = "notequals", !.a = a, !.b = b, !.value = value]
    /\ UNCHANGED <<nortti, nothrow, wrappers, calls, shuffles>>

\* The caller has read the result; the next operation can begin.
Return ==
    /\ ~Ready
    /\ last' = Idle
    /\ UNCHANGED <<nortti, nothrow, wrappers, calls, shuffles>>

----------------------------------------------------------------------------
(* erasure.cpp: the handles and what main does with them.                  *)

\* Conventional::operator=( const SameConventional& copy ):
\* procedure = copy.procedure, on the array element at index.
Assign(array, index, copy) == [array EXCEPT ![index] = copy]

RECURSIVE ShuffleLoop(_, _)
\* for (index = 1; index < Length; index++) calls[index - 1] = calls[index];
\* (the array is indexed from 1 here)
ShuffleLoop(array, index) ==
    IF index < Length
    THEN ShuffleLoop(Assign(array, index, array[index + 1]), index + 1)
    ELSE array

\* A slip: the first handle is not saved before the loop overwrites it.
ShuffledUnsaved(array) ==
    IF Length < 2 THEN array
    ELSE LET moved == ShuffleLoop(array, 1)
         IN  Assign(moved, Length, moved[1])

\* ShuffleCalls( calls )
Shuffled(array) ==
    IF Length < 2 THEN array
    ELSE LET swap == array[1]
         IN  Assign(ShuffleLoop(array, 1), Length, swap)

\* A slip: the rotation assigns the wrappers the handles point at, not the
\* handles.
ShuffleCallsThrough ==
    /\ Ready
    /\ shuffles < MaxShuffles
    /\ wrappers' = [a \in Addresses |->
                       IF a \in Static THEN wrappers[Shuffled(calls)[a]]
                       ELSE wrappers[a]]
    /\ shuffles' = shuffles + 1
    /\ last' = [Idle EXCEPT !.op = "ShuffleCalls"]
    /\ UNCHANGED <<nortti, nothrow, calls>>

ShuffleCalls ==
    /\ Ready
    /\ shuffles < MaxShuffles
    /\ calls' = Shuffled(calls)
    /\ shuffles' = shuffles + 1
    /\ last' = [Idle EXCEPT !.op = "ShuffleCalls"]
    /\ UNCHANGED <<nortti, nothrow, wrappers>>

RECURSIVE PerformLoop(_, _)
\* for (index = 0; index < Length; index++) CallProcedure( calls[index] );
\* the lines written, in order.
PerformLoop(array, index) ==
    IF index <= Length
    THEN (CHOOSE outcome \in Call(wrappers[array[index]], NoArgument) : TRUE).effect
         \o PerformLoop(array, index + 1)
    ELSE <<>>

\* PerformCalls( calls )
PerformCalls ==
    /\ Ready
    /\ last' = [Idle EXCEPT !.op = "PerformCalls", !.effect = PerformLoop(calls, 1)]
    /\ UNCHANGED <<nortti, nothrow, wrappers, calls, shuffles>>

\* Conventional::operator==( const BaseProcedural& relative ):
\* return *procedure == relative;  as in  calls[0] == LambdaProcedure
Compare(index, b) ==
    /\ index \in 1..Length
    /\ Equals(calls[index], b)

----------------------------------------------------------------------------
Init ==
    /\ nortti \in BOOLEAN
    /\ nothrow \in BOOLEAN
    /\ wrappers = [a \in Addresses |-> IF a \in Static THEN Statics[a] ELSE NoWrapper]
    /\ calls = [index \in 1..Length |-> index]
    /\ shuffles = 0
    /\ last = Idle

Next ==
    \/ \E a \in Addresses, function \in Functions : Procure1(a, function)
    \/ \E a \in Addresses, object \in Callables : Procure2(a, object)
    \/ \E a \in Addresses, object \in Receivers, method \in Selectors :
          Procure3(a, object, method)
    \/ \E a \in Addresses, function \in Functions : ProcureComparably1(a, function)
    \/ \E a \in Addresses, object \in Callables : ProcureComparably2(a, object)
    \/ \E a \in Addresses, object \in Receivers, method \in Selectors :
          ProcureComparably3(a, object, method)
    \/ \E a, source \in Addresses : Copy(a, source)
    \/ \E a \in Addresses : Destroy(a)
    \/ \E a \in Addresses, argument \in Arguments : Invoke(a, argument)
    \/ \E a, b \in Addresses : Equals(a, b)
    \/ \E a, b \in Addresses : NotEquals(a, b)
    \/ ShuffleCalls
    \/ PerformCalls
    \/ \E index \in 1..Length, b \in Addresses : Compare(index, b)
    \/ Return

Spec == Init /\ [][Next]_vars

----------------------------------------------------------------------------
(* The properties.                                                         *)

\* The callable kind of a wrapper: the factory overload that made it (a
\* copy keeps the kind of its source).
Kind(w) == w.via

\* The member of the bound object a wrapper is bound to call.
BoundMember(w) == IF IsMethodic(w) THEN w.method ELSE CallOperator

Compared == last.op = "equals"
Left == wrappers[last.a]
Right == wrappers[last.b]

\* C1: invoking a wrapper of any of the three kinds, built by Procure or
\* ProcureComparably, through Procedural's call operator calls the bound
\* callable exactly once with the same arguments and returns its result:
\* the effect and the result are those of the direct call (of a call that
\* returns; C11 is about the one that throws).
C1_InvokeForwards ==
    (last.op = "invoke" /\ Left.method # Null /\ last.argument # Refused) =>
        /\ last.value = "returned"
        /\ last.effect = Body(Left.object, BoundMember(Left), last.argument).effect
        /\ Len(last.effect) = 1
        /\ last.result = Body(Left.object, BoundMember(Left), last.argument).result

C1_Witness ==
    /\ last.op = "invoke"
    /\ Left.class = "SimplyMethodic"
    /\ Left.method = "other"
    /\ last.argument = "World"
    /\ last.value = "returned"

\* C2 as stated: with dynamic type identification, two comparable wrappers
\* of the same kind bound to the same object (and, for method wrappers, the
\* same selector) compare equal.
C2_SameObjectEqual ==
    ( /\ ~nortti /\ Compared /\ last.b \in Comparable
      /\ Kind(Left) = Kind(Right)
      /\ Left.object = Right.object /\ Left.method = Right.method )
    => last.value = "true"

\* C2 as amended: with dynamic type identification, two comparable wrappers
\* of the same kind bound to the same object through references of the
\* same static type (and, for method wrappers, the same selector of the
\* same pointer to member type) compare equal, whether the second came
\* from a separate ProcureComparably call or from copies of the first.
C2_SameReferenceEqual ==
    ( /\ ~nortti /\ Compared /\ last.b \in Comparable
      /\ Kind(Left) = Kind(Right)
      /\ Left.typical = Right.typical /\ Left.locational = Right.locational
      /\ Left.object = Right.object /\ Left.method = Right.method )
    => last.value = "true"

C2_Witness ==
    /\ ~nortti /\ Compared /\ last.a # last.b /\ last.b \in Comparable
    /\ last.a \notin Static
    /\ Left = Right
    /\ IsMethodic(Left)
    /\ last.value = "true"

\* C3: with dynamic type identification, two comparable wrappers bound to
\* different objects compare unequal, also when the objects have the same
\* type and contents and, for method wrappers, the selector is the same.
C3_DifferentObjectsUnequal ==
    ( /\ ~nortti /\ Compared /\ last.b \in Comparable
      /\ Left.object # Right.object )
    => last.value = "false"

C3_Witness ==
    /\ ~nortti /\ Compared /\ last.b \in Comparable
    /\ IsMethodic(Left) /\ IsMethodic(Right)
    /\ Left.typical = Right.typical
    /\ Left.method = Right.method
    /\ Left.object # Right.object
    /\ last.value = "false"

FunctionAndObject ==
    /\ ~nortti /\ Compared /\ last.b \in Comparable
    /\ {Kind(Left), Kind(Right)} = {"object", "function"}

\* C4 as stated: with dynamic type identification, a function wrapper
\* (ProcureComparably of a function alone) and an object wrapper
\* (ProcureComparably of a callable and a Guide) never compare equal.
C4_FunctionNeverEqualsObject == FunctionAndObject => last.value = "false"

\* C4 as amended: with dynamic type identification, a function wrapper and
\* an object wrapper of matching signature compare equal if and only if
\* the object wrapper is constructed over the same function; an object
\* wrapper over any other callable is unequal to every function wrapper.
C4_FunctionEqualsObjectOverIt ==
    FunctionAndObject => (last.value = "true" <=> Left.object = Right.object)

C4_Witness ==
    /\ FunctionAndObject
    /\ Kind(Left) = "function"
    /\ Left.object = Right.object
    /\ last.value = "true"

\* C5: without dynamic type identification, equals on two distinct wrapper
\* instances is false, also when both are bound to the same callable and
\* when one is a copy of the other.
C5_AddressOnlyDistinctUnequal ==
    (nortti /\ Compared /\ last.a # last.b) => last.value = "false"

C5_Witness ==
    /\ nortti /\ Compared /\ last.a # last.b
    /\ Left = Right
    /\ last.value = "false"

\* C6: in both modes, a comparable wrapper of any kind equals itself.
C6_Reflexive == (Compared /\ last.a = last.b) => last.value = "true"

C6_Witness ==
    /\ ~nortti /\ Compared /\ last.a = last.b
    /\ IsMethodic(Left)
    /\ last.value = "true"

\* C7: in both modes, not-equals(A, B) returns the negation of what
\* equals(A, B) returns when dispatched on A's concrete class.
C7_NotEqualsNegates ==
    last.op = "notequals" => last.value = Text(~Equal(last.a, last.b))

\* C8: in the throwing build, constructing a method wrapper with a null
\* selector throws to the caller and yields no instance, constructing one
\* with any other selector never throws, and no method wrapper with a null
\* selector exists.
C8_NullSelectorThrows ==
    /\ [](~nothrow => \A a \in Live : wrappers[a].method # Null)
    /\ [][ (~nothrow /\ last'.op = "construct" /\ last'.method # "none") =>
             IF last'.method = Null
             THEN last'.value = "thrown" /\ last'.a = 0 /\ wrappers' = wrappers
             ELSE /\ last'.value = "constructed"
                  /\ wrappers[last'.a] = NoWrapper
                  /\ IsMethodic(wrappers'[last'.a])
                  /\ wrappers'[last'.a].method = last'.method ]_vars

C8_Witness ==
    /\ ~nothrow
    /\ last.op = "construct"
    /\ last.method = Null
    /\ last.value = "thrown"

\* The line the wrapper constructed in position index writes when invoked.
ConstructionLine(index) ==
    Body(Statics[index].object, BoundMember(Statics[index]), NoArgument).effect[1]

\* C9 as stated: invoking each position of the array in order gives the
\* output of the construction order, after any number of rotations.
C9_OutputIsConstructionOrder ==
    last.op = "PerformCalls" =>
        last.effect = [index \in 1..Length |-> ConstructionLine(index)]

\* C9 as amended: after k rotations, invoking each position in order gives
\* the construction order rotated left by k modulo the length: position i
\* invokes the callable of the wrapper constructed in position
\* (i + k) modulo the length, so the output is that of the construction
\* order exactly when k is a multiple of the length; every wrapper still
\* invokes the callable it was constructed with.
C9_OutputIsRotatedOrder ==
    last.op = "PerformCalls" =>
        last.effect = [index \in 1..Length |->
                          ConstructionLine(((index - 1 + shuffles) % Length) + 1)]

C9_Witness ==
    /\ last.op = "PerformCalls"
    /\ shuffles = Length + 1
    /\ last.effect[Length] = ConstructionLine(1)

\* C10: a wrapper instance is immutable: whatever operation runs (invoke,
\* equals, not-equals, copy, rotation of the handles), every instance that
\* exists stays bound to the object and the selector it was constructed
\* with, until it is destroyed.
C10_Immutable ==
    [][ \A a \in Live :
           \/ wrappers'[a] = wrappers[a]
           \/ Destroy(a) ]_vars

C10_Witness ==
    /\ last.op = "ShuffleCalls"
    /\ shuffles > 0
    /\ calls[1] # 1
    /\ \A a \in Static : wrappers[a] = Statics[a]
    /\ Live # Static

\* What the direct call of the callable a wrapper is bound to does.
Direct(w, argument) == Body(w.object, BoundMember(w), argument)

\* C11: if the bound function, object or method throws during the call,
\* invoke ends with that same exception and nothing else (the callable ran
\* once, no retry); if it returns, invoke never throws.
C11_ErrorsPropagate ==
    (last.op = "invoke" /\ Left.method # Null) =>
        /\ last.value = (IF Direct(Left, last.argument).raises
                         THEN "thrown" ELSE "returned")
        /\ last.result = Direct(Left, last.argument).result
        /\ last.effect = Direct(Left, last.argument).effect

C11_Witness ==
    /\ last.op = "invoke"
    /\ Left.class = "ComparablyMethodic"
    /\ last.argument = Refused
    /\ last.value = "thrown"
    /\ last.result = <<Left.object, Left.method, Refused>>

\* C12: only invoke reaches the referenced callable: constructing (also
\* when the constructor throws), copying, comparing with equals or
\* not-equals, destroying a wrapper and re-pointing the handles never call
\* it: nothing is written and nothing is returned by it.
C12_OnlyInvokeCalls ==
    (~Ready /\ last.op # "invoke" /\ last.op # "PerformCalls") =>
        last.effect = <<>> /\ last.result = <<>>

C12_Witness ==
    /\ Compared /\ last.a # last.b
    /\ Left.object = Right.object
    /\ last.value = "true"
    /\ last.effect = <<>>

\* C13: with dynamic type identification, two comparable method wrappers
\* bound to the same object but to different selectors of the same pointer
\* to member type compare unequal; a method wrapper equals another wrapper
\* only if both the referenced objects and the selectors are equal.
C13_DifferentSelectorsUnequal ==
    (~nortti /\ Compared /\ IsMethodic(Left)) =>
        /\ ( /\ IsMethodic(Right)
             /\ Left.locational = Right.locational
             /\ Left.object = Right.object
             /\ Left.method # Right.method ) => last.value = "false"
        /\ last.value = "true" =>
               Left.object = Right.object /\ Left.method = Right.method

C13_Witness ==
    /\ ~nortti /\ Compared /\ last.b \in Comparable
    /\ IsMethodic(Left) /\ IsMethodic(Right)
    /\ Left.object = Right.object
    /\ Left.method = "member" /\ Right.method = "other"
    /\ last.value = "false"

\* C14: with dynamic type identification, an object wrapper and a method
\* wrapper never compare equal, whichever is the left operand, also when
\* both are bound to the same object.
C14_ObjectNeverEqualsMethod ==
    ( /\ ~nortti /\ Compared
      /\ \/ IsObjective(Left) /\ IsMethodic(Right)
         \/ IsMethodic(Left) /\ IsObjective(Right) )
    => last.value = "false"

C14_Witness ==
    /\ ~nortti /\ Compared
    /\ Left = FunctorProcedure /\ Right = MethodProcedure
    /\ last.value = "false"

\* Left is compared with a simple wrapper (one made by Procure) of the same
\* kind bound to the same object and, for method wrappers, selector.
WithSimpleOverSame ==
    /\ Compared /\ ~IsComparable(Right)
    /\ Kind(Left) = Kind(Right)
    /\ Left.object = Right.object /\ Left.method = Right.method

\* C15 as stated: comparing a comparable wrapper with a simple wrapper
\* bound to the same object gives true with dynamic type identification
\* and false without it.
C15_SimpleOverSameObject == WithSimpleOverSame => last.value = Text(~nortti)

\* C15 as amended: comparing a comparable wrapper with a simple wrapper of
\* the same kind bound to the same object through a reference of the same
\* static type (and to the same selector of the same pointer to member
\* type) gives true with dynamic type identification and false without it:
\* the comparison erasure.cpp makes to report whether RTTI works.
C15_SimpleOverSameReference ==
    ( /\ WithSimpleOverSame
      /\ Left.typical = Right.typical /\ Left.locational = Right.locational )
    => last.value = Text(~nortti)

C15_Witness ==
    /\ ~nortti /\ Compared
    /\ shuffles = Length /\ last.a = calls[1]
    /\ Left = LambdaProcedure
    /\ Right = ProcureObject(LambdaRef)
    /\ last.value = "true"

\* C16: when PROCEDURE_MODULE_NOTHROW is defined, constructing a method
\* wrapper never throws, whatever the selector, the null one included: the
\* wrapper exists and holds the selector; the behaviour is undefined only
\* in the call of a wrapper whose selector is null, and always there.
C16_NoThrowBuildConstructs ==
    /\ (nothrow /\ last.op = "construct" /\ last.method # "none") =>
          /\ last.value = "constructed"
          /\ IsMethodic(wrappers[last.a])
          /\ wrappers[last.a].method = last.method
    /\ last.value = "undefined" => (last.op = "invoke" /\ Left.method = Null)
    /\ (last.op = "invoke" /\ Left.method = Null) => last.value = "undefined"

C16_Witness ==
    /\ nothrow
    /\ last.op = "invoke"
    /\ Left.method = Null
    /\ last.value = "undefined"

\* The callable a wrapper stands for: the object, or the object and the
\* selector.
Callable(w) == <<w.object, w.method>>

\* The documented discipline: one comparable wrapper instance for each
\* unique callable.
Discipline ==
    \A a, b \in Comparable :
        a # b => Callable(wrappers[a]) # Callable(wrappers[b])

\* C17: under the discipline, for every pair of comparable wrappers of the
\* same kind the equal to operator returns, with and without dynamic type
\* identification alike, whether the two are the same instance: the two
\* modes agree, wherever the handles point.
C17_DisciplineModesAgree ==
    Discipline =>
        \A a, b \in Comparable :
            Kind(wrappers[a]) = Kind(wrappers[b]) => (Equal(a, b) <=> a = b)

C17_Witness ==
    /\ ~nortti /\ Discipline /\ Compared
    /\ last.a \notin Static /\ last.b \in Comparable
    /\ Kind(Left) = Kind(Right) /\ Left.typical = Right.typical
    /\ shuffles > 0
    /\ last.value = "false"

\* C18: in both modes, for any two comparable wrappers of any kinds,
\* equals(A, B) and equals(B, A) return the same value.
C18_Symmetric ==
    \A a, b \in Comparable : Equal(a, b) <=> Equal(b, a)

C18_Witness ==
    /\ ~nortti /\ Compared
    /\ last.a # last.b /\ last.b \in Comparable
    /\ Kind(Left) # Kind(Right)
    /\ last.value = "true"
    /\ Equal(last.b, last.a)

====
